---- MODULE Spec2Model ----
(***************************************************************************)
(* The document-to-report pipeline of src/main.py: the /analyze/ handler   *)
(* (analyze_upload), the text extractors, the prompt truncation and the    *)
(* decoding of the model's raw output (extract_json_from_text).            *)
(*                                                                         *)
(* Texts are TLA+ strings; a character is a string of length one.  Python  *)
(* indices are 0-based with -1 for "not found"; here they are 1-based with *)
(* 0 for "not found".                                                      *)
(***************************************************************************)
EXTENDS Integers, Sequences, FiniteSets, TLC

\* ------------------------------------------------------------------ bounds

\* Number of requests one behaviour serves (uuid4 draws at most this many names).
MaxRequests == 2

\* ------------------------------------------------------- program constants

\* main.py:75, the length at which the document text is cut.
SnippetLimit == 6000

\* main.py:75, the marker appended to a cut text.
TruncationMarker == "\n\n[TRUNCATED]"

ALLOWED_TYPES_plus_text ==
    [ct \in {"application/pdf",
             "application/vnd.openxmlformats-officedocument.wordprocessingml.document",
             "application/msword",
             "text/plain"} |->
        CASE ct = "application/pdf" -> ".pdf"
          [] ct = "application/vnd.openxmlformats-officedocument.wordprocessingml.document" -> ".docx"
          [] ct = "application/msword" -> ".doc"
          [] OTHER -> ".txt"]

\* main.py:33-37
ALLOWED_TYPES ==
    [ct \in {"application/pdf",
             "application/vnd.openxmlformats-officedocument.wordprocessingml.document",
             "application/msword"} |->
        CASE ct = "application/pdf" -> ".pdf"
          [] ct = "application/vnd.openxmlformats-officedocument.wordprocessingml.document" -> ".docx"
          [] OTHER -> ".doc"]

\* ------------------------------------------------------------ str helpers

\* s[i-1] of Python, "" outside the string.
At(s, i) == IF i >= 1 /\ i <= Len(s) THEN SubSeq(s, i, i) ELSE ""

\* The characters str.strip() removes (those of str.isspace that a TLA+
\* string can hold).
StripWhitespace == {" ", "\t", "\n", "\r", "\f"}

RECURSIVE LStripIndex(_, _)
LStripIndex(s, i) ==
    IF At(s, i) \in StripWhitespace THEN LStripIndex(s, i + 1) ELSE i

RECURSIVE RStripIndex(_, _)
RStripIndex(s, i) ==
    IF At(s, i) \in StripWhitespace THEN RStripIndex(s, i - 1) ELSE i

\* str.strip()
strip(s) ==
    LET a == LStripIndex(s, 1) IN
    IF a > Len(s) THEN "" ELSE SubSeq(s, a, RStripIndex(s, Len(s)))

\* str.find(ch): the first index of ch at or after i, 0 when there is none.
RECURSIVE find(_, _, _)
find(s, ch, i) ==
    IF i > Len(s) THEN 0 ELSE IF At(s, i) = ch THEN i ELSE find(s, ch, i + 1)

\* str.rfind(ch): the last index of ch at or before i, 0 when there is none.
RECURSIVE rfind(_, _, _)
rfind(s, ch, i) ==
    IF i < 1 THEN 0 ELSE IF At(s, i) = ch THEN i ELSE rfind(s, ch, i - 1)

\* s * n
RECURSIVE Repeat(_, _)
Repeat(s, n) ==
    IF n = 0 THEN ""
    ELSE LET h == Repeat(s, n \div 2) IN
         IF n % 2 = 0 THEN h \o h ELSE h \o h \o s

\* ------------------------------------------------------------- json.loads

\* A parsed JSON value.  Every value carries the same four fields, so that
\* any two values compare: t is the Python type, s the text of a str or of
\* a number literal, keys/items the keys and values of a dict (in insertion
\* order) or the items of a list.
Node(t, s, keys, items) == [t |-> t, s |-> s, keys |-> keys, items |-> items]

\* Python's None: what json.loads returns for null, and what
\* extract_json_from_text returns when nothing parses.
None == Node("null", "", <<>>, <<>>)

JBool(b) == Node(IF b THEN "true" ELSE "false", "", <<>>, <<>>)

JNumber(lit) == Node("number", lit, <<>>, <<>>)

\* float('nan'), float('inf'), float('-inf'): json.loads accepts the
\* literals NaN, Infinity and -Infinity.
JNonFinite(lit) == Node("nonfinite", lit, <<>>, <<>>)

JString(x) == Node("string", x, <<>>, <<>>)

JArray(items) == Node("array", "", <<>>, items)

JObject(keys, items) == Node("object", "", keys, items)

Ok(v, i) == [ok |-> TRUE, v |-> v, i |-> i]

Bad == [ok |-> FALSE, v |-> None, i |-> 0]

BadString == [ok |-> FALSE, v |-> "", i |-> 0]

\* json.decoder.WHITESPACE
JsonWhitespace == {" ", "\t", "\n", "\r"}

Digits == {"0", "1", "2", "3", "4", "5", "6", "7", "8", "9"}

StartsWith(s, i, lit) ==
    i + Len(lit) - 1 <= Len(s) /\ SubSeq(s, i, i + Len(lit) - 1) = lit

RECURSIVE SkipWs(_, _)
SkipWs(s, i) == IF At(s, i) \in JsonWhitespace THEN SkipWs(s, i + 1) ELSE i

RECURSIVE ScanDigits(_, _)
ScanDigits(s, i) == IF At(s, i) \in Digits THEN ScanDigits(s, i + 1) ELSE i

\* json.scanner.NUMBER_RE, (-?(?:0|[1-9]\d*))(\.\d+)?([eE][-+]?\d+)? matched
\* at i: the index after the match, 0 when there is no match.
MatchNumber(s, i) ==
    LET a == IF At(s, i) = "-" THEN i + 1 ELSE i
        b == IF At(s, a) = "0" THEN a + 1
             ELSE IF At(s, a) \in Digits THEN ScanDigits(s, a) ELSE 0
        c == IF b # 0 /\ At(s, b) = "." /\ At(s, b + 1) \in Digits
             THEN ScanDigits(s, b + 1) ELSE b
        x == IF At(s, c) \in {"e", "E"}
             THEN (IF At(s, c + 1) \in {"+", "-"} THEN c + 2 ELSE c + 1)
             ELSE 0
    IN  IF c # 0 /\ x # 0 /\ At(s, x) \in Digits THEN ScanDigits(s, x) ELSE c

\* json.decoder.BACKSLASH, for the escapes a TLA+ string can hold.
Unescape(c) ==
    CASE c = "n" -> "\n" [] c = "t" -> "\t" [] c = "r" -> "\r" [] c = "f" -> "\f"
      [] OTHER -> c

\* json.decoder.scanstring (strict): i is the index after the opening quote.
RECURSIVE ScanString(_, _, _)
ScanString(s, i, acc) ==
    LET c == At(s, i) IN
    IF c = "" THEN BadString
    ELSE IF c = "\"" THEN [ok |-> TRUE, v |-> acc, i |-> i + 1]
    ELSE IF c = "\\" THEN
        IF At(s, i + 1) \in {"\"", "\\", "/", "n", "t", "r", "f"}
        THEN ScanString(s, i + 2, acc \o Unescape(At(s, i + 1)))
        ELSE BadString
    ELSE IF c \in {"\n", "\t", "\r", "\f"} THEN BadString
    ELSE ScanString(s, i + 1, acc \o c)

IndexOf(keys, k) ==
    IF \E p \in 1..Len(keys) : keys[p] = k
    THEN CHOOSE p \in 1..Len(keys) : keys[p] = k
    ELSE 0

\* json.scanner.py_make_scanner._scan_once, with JSONObject and JSONArray.
RECURSIVE ScanOnce(_, _), JSONObject(_, _, _, _), JSONArray(_, _, _)
ScanOnce(s, i) ==
    LET c == At(s, i) IN
    IF c = "\"" THEN
        LET r == ScanString(s, i + 1, "") IN
        IF r.ok THEN Ok(JString(r.v), r.i) ELSE Bad
    ELSE IF c = "{" THEN
        LET j == SkipWs(s, i + 1) IN
        IF At(s, j) = "}" THEN Ok(JObject(<<>>, <<>>), j + 1)
        ELSE IF At(s, j) # "\"" THEN Bad
        ELSE JSONObject(s, j, <<>>, <<>>)
    ELSE IF c = "[" THEN
        LET j == SkipWs(s, i + 1) IN
        IF At(s, j) = "]" THEN Ok(JArray(<<>>), j + 1)
        ELSE JSONArray(s, j, <<>>)
    ELSE IF StartsWith(s, i, "null") THEN Ok(None, i + 4)
    ELSE IF StartsWith(s, i, "true") THEN Ok(JBool(TRUE), i + 4)
    ELSE IF StartsWith(s, i, "false") THEN Ok(JBool(FALSE), i + 5)
    ELSE IF MatchNumber(s, i) # 0 THEN
        Ok(JNumber(SubSeq(s, i, MatchNumber(s, i) - 1)), MatchNumber(s, i))
    ELSE IF StartsWith(s, i, "NaN") THEN Ok(JNonFinite("NaN"), i + 3)
    ELSE IF StartsWith(s, i, "Infinity") THEN Ok(JNonFinite("Infinity"), i + 8)
    ELSE IF StartsWith(s, i, "-Infinity") THEN Ok(JNonFinite("-Infinity"), i + 9)
    ELSE Bad

\* The pairs of an object; j is the index of the opening quote of a key.  A
\* repeated key keeps its place and takes the later value, as a dict does.
JSONObject(s, j, keys, vals) ==
    LET k == ScanString(s, j + 1, "") IN
    IF ~k.ok THEN Bad ELSE
    LET c == SkipWs(s, k.i) IN
    IF At(s, c) # ":" THEN Bad ELSE
    LET v == ScanOnce(s, SkipWs(s, c + 1)) IN
    IF ~v.ok THEN Bad ELSE
    LET e == SkipWs(s, v.i)
        p == IndexOf(keys, k.v)
        keys2 == IF p = 0 THEN Append(keys, k.v) ELSE keys
        vals2 == IF p = 0 THEN Append(vals, v.v) ELSE [vals EXCEPT ![p] = v.v]
    IN  IF At(s, e) = "}" THEN Ok(JObject(keys2, vals2), e + 1)
        ELSE IF At(s, e) # "," THEN Bad
        ELSE LET n == SkipWs(s, e + 1) IN
             IF At(s, n) # "\"" THEN Bad ELSE JSONObject(s, n, keys2, vals2)

\* The items of an array; j is the index of the first character of an item.
JSONArray(s, j, items) ==
    LET v == ScanOnce(s, j) IN
    IF ~v.ok THEN Bad ELSE
    LET e == SkipWs(s, v.i) IN
    IF At(s, e) = "]" THEN Ok(JArray(Append(items, v.v)), e + 1)
    ELSE IF At(s, e) # "," THEN Bad
    ELSE JSONArray(s, SkipWs(s, e + 1), Append(items, v.v))

\* json.loads(s): ok is FALSE where Python raises (JSONDecodeError).
json_loads(s) ==
    LET r == ScanOnce(s, SkipWs(s, 1)) IN
    IF r.ok /\ SkipWs(s, r.i) = Len(s) + 1
    THEN [ok |-> TRUE, v |-> r.v]
    ELSE [ok |-> FALSE, v |-> None]

\* json.dumps(content, allow_nan=False) of JSONResponse.render raises
\* ValueError exactly when the content holds a nan or an infinity.
RECURSIVE HasNonFinite(_)
HasNonFinite(n) ==
    \/ n.t = "nonfinite"
    \/ \E p \in 1..Len(n.items) : HasNonFinite(n.items[p])

\* ---------------------------------------------------- functions of main.py

\* main.py:40-46, the page texts of a PDF ("" for a page whose extract_text()
\* gives None or ""), each followed by a newline, then stripped.
RECURSIVE JoinPages(_)
JoinPages(pages) ==
    IF pages = <<>> THEN "" ELSE Head(pages) \o "\n" \o JoinPages(Tail(pages))

extract_text_from_pdf(pages) == strip(JoinPages(pages))

\* "\n".join(xs)
RECURSIVE JoinLines(_)
JoinLines(xs) ==
    IF xs = <<>> THEN ""
    ELSE IF Len(xs) = 1 THEN Head(xs)
    ELSE Head(xs) \o "\n" \o JoinLines(Tail(xs))

\* main.py:48-50, the non-empty paragraphs joined by newlines, then stripped.
extract_text_from_docx(paragraphs) ==
    strip(JoinLines(SelectSeq(paragraphs, LAMBDA p : p # "")))

\* A document as its readers see it: PyPDF2 reads the pages of a PDF and
\* raises on anything else, python-docx reads the paragraphs of a .docx and
\* raises on anything else.
ReaderFormat(ext) == IF ext = ".pdf" THEN "pdf" ELSE "docx"

ReaderError(ext) ==
    IF ext = ".pdf" THEN "EOF marker not found" ELSE "File is not a zip file"

\* main.py:168-171
ExtractByExt(ext, doc) ==
    IF ext = ".pdf" THEN extract_text_from_pdf(doc.parts)
    ELSE extract_text_from_docx(doc.parts)

NoExtractableText_never(text) == FALSE

\* main.py:176, `not text.strip()`
NoExtractableText(text) == strip(text) = ""

\* main.py:75
Truncate(text) ==
    IF Len(text) < SnippetLimit THEN text
    ELSE SubSeq(text, 1, SnippetLimit) \o TruncationMarker

JsonSnippet_short(s) ==
    LET start == find(s, "{", 1)
        end == rfind(s, "}", Len(s))
    IN  IF start # 0 /\ end # 0 /\ end > start
        THEN [found |-> TRUE, snippet |-> SubSeq(s, start, end - 1)]
        ELSE [found |-> FALSE, snippet |-> ""]

\* main.py:59-62, s[start:end+1] from the first "{" to the last "}".
JsonSnippet(s) ==
    LET start == find(s, "{", 1)
        end == rfind(s, "}", Len(s))
    IN  IF start # 0 /\ end # 0 /\ end > start
        THEN [found |-> TRUE, snippet |-> SubSeq(s, start, end)]
        ELSE [found |-> FALSE, snippet |-> ""]

\* main.py:53-67
extract_json_from_text(s0) ==
    LET s == strip(s0)
        whole == json_loads(s)
    IN  IF whole.ok THEN whole.v
        ELSE LET b == JsonSnippet(s) IN
             IF b.found /\ json_loads(b.snippet).ok
             THEN json_loads(b.snippet).v
             ELSE None

DegradedReport_stripped(model_output) ==
    JObject(<<"summary", "violations", "suggestions", "metrics", "raw_output">>,
            <<JObject(<<"compliant", "message">>,
                      <<JBool(FALSE), JString("Model did not return parseable JSON")>>),
              JArray(<<>>), JArray(<<>>), JObject(<<>>, <<>>),
              JString(strip(model_output))>>)

\* main.py:106-112
DegradedReport(model_output) ==
    JObject(<<"summary", "violations", "suggestions", "metrics", "raw_output">>,
            <<JObject(<<"compliant", "message">>,
                      <<JBool(FALSE), JString("Model did not return parseable JSON")>>),
              JArray(<<>>), JArray(<<>>), JObject(<<>>, <<>>),
              JString(model_output)>>)

\* `if not parsed:` in place of `if parsed is None:`.
ReportOf_falsy(parsed, model_output) ==
    IF \/ parsed = None
       \/ parsed.t = "false"
       \/ parsed.t \in {"object", "array"} /\ parsed.items = <<>>
       \/ parsed.t = "string" /\ parsed.s = ""
       \/ parsed.t = "number" /\ parsed.s \in {"0", "-0"}
    THEN DegradedReport(model_output)
    ELSE parsed

\* main.py:104-113
ReportOf(parsed, model_output) ==
    IF parsed = None THEN DegradedReport(model_output) ELSE parsed

\* main.py:186-190, the content of the success response.
SuccessContent(fn, ct, rep) ==
    JObject(<<"filename", "content_type", "report">>,
            <<JString(fn), JString(ct), rep>>)

\* The detail strings of the HTTPExceptions, main.py:152, 164, 174, 177, 184.
UnsupportedTypeDetail(ct) == "Unsupported file type: " \o ct

StorageErrorDetail(e) == "File save error: " \o e

ExtractionFailedDetail_copied(e) == "File save error: " \o e

ExtractionFailedDetail(e) == "Extraction failed: " \o e

NoExtractableTextDetail == "No extractable text found in the document."

AnalysisFailedDetail(e) == "LLM analysis failed: " \o e

\* main.py:72
MissingKeyError == "OPENAI_API_KEY is not set in .env"

\* main.py:148
DefaultGuidelines == "Avoid passive voice. Sentences under 25 words. Formal tone."

\* ------------------------------------------------------------------ inputs

\* Declared media types a caller may send: the three supported ones and two
\* that are not.
ContentTypes ==
    {"application/pdf",
     "application/vnd.openxmlformats-officedocument.wordprocessingml.document",
     "application/msword",
     "text/plain",
     "image/png"}

\* Texts around the truncation threshold: one character short of it, exactly
\* at it, and one character over it.
TextBelowLimit == Repeat("a", SnippetLimit - 1)

TextAtLimit == Repeat("a", SnippetLimit - 1) \o "b"

TextAboveLimit == Repeat("a", SnippetLimit - 1) \o "bc"

Doc(format, parts) == [format |-> format, parts |-> parts]

NoDoc == Doc("", <<>>)

\* Uploaded files, by what the readers find in them.
Documents ==
    {Doc("pdf", <<"The cat sat.">>),
     Doc("pdf", <<"", "">>),
     Doc("pdf", <<" \t", "\f ">>),
     Doc("pdf", <<TextBelowLimit>>),
     Doc("pdf", <<TextAtLimit>>),
     Doc("pdf", <<TextAboveLimit>>),
     Doc("docx", <<"Line1", "", "Line2">>),
     Doc("docx", <<"", " ">>),
     Doc("docx", <<>>),
     Doc("garbage", <<>>)}

\* What shutil.copyfileobj into a file opened "wb" can raise, and whether the
\* file exists by then: open() fails before the file is created, a write
\* fails after.
StorageFailures ==
    {[cause |-> "[Errno 13] Permission denied", created |-> FALSE],
     [cause |-> "[Errno 28] No space left on device", created |-> TRUE]}

\* What chain.predict can raise.
ModelFailures == {"Connection error."}

\* The values of the environment variable: unset and set.
ApiKeys == {"", "sk-test"}

CompliantJson ==
    "{\"summary\": {\"compliant\": true, \"message\": \"ok\"}, \"violations\": [], "
        \o "\"suggestions\": [], \"metrics\": {\"word_count\": 3}}"

\* Raw outputs of the model in the request pipeline: one of each shape.
ModelOutputs ==
    {CompliantJson,
     "Sure! Here you go: {\"summary\":{\"compliant\":true}} Thanks!",
     "I cannot comply.",
     "[1]",
     "null",
     "",
     "{\"metrics\": {\"word_count\": NaN}}"}

\* Raw outputs of the shape <prose>{...}<prose>.
Prefixes == {"", " ", "Sure! Here you go: ", "Use {x} so: ", "} ", "["}

InnerObjects == {"{}", "{\"a\":1}", "{\"summary\":{\"compliant\":true}}"}

Suffixes == {"", "\n", " Thanks!", " } end", " {", "]"}

\* Raw outputs for the decoder on its own.
DecoderInputs ==
    {p \o o \o q : p \in Prefixes, o \in InnerObjects, q \in Suffixes}
    \cup ModelOutputs
    \cup {"  I cannot comply.\n", "Sorry", " \n ", "\f{}", "\n" \o CompliantJson \o "\n",
          "1", "-2.5e3", "\"ok\"", "true", "false", "[]", "[{\"a\":1}, 2]", "NaN",
          "{\"a\":1", "{\"a\":1,}", "{'a':1}", "{\"a\": \"x}y\"} ok", "{\"a\": \"say \\\"hi\\\"\"}",
          "{\"a\":1} {\"b\":2}", "}{", "{\"a\": 1, \"a\": 2}"}

\* ------------------------------------------------------------------- state

VARIABLES
    OPENAI_API_KEY,  \* main.py:26
    uploads,         \* names of the files in UPLOAD_DIR
    nreq,            \* requests received so far
    pc,              \* where the current request is in analyze_upload
    file,            \* the request: declared content type, document, guidelines
    ext,             \* main.py:154
    fname,           \* main.py:155
    text,            \* main.py:169/171
    text_snippet,    \* main.py:75
    model_output,    \* main.py:100
    parsed,          \* main.py:103
    report,          \* main.py:181
    response,        \* what the caller receives
    stages,          \* history: the stages this request ran, with their outcome
    llmCalls,        \* history: calls of chain.predict in this request
    uploadsAtStart,  \* history: uploads when this request arrived
    failures         \* history: the failures returned to callers so far

vars ==
    <<OPENAI_API_KEY, uploads, nreq, pc, file, ext, fname, text, text_snippet,
      model_output, parsed, report, response, stages, llmCalls, uploadsAtStart,
      failures>>

locals == <<ext, fname, text, text_snippet, model_output, parsed, report>>

NoResponse == [status |-> 0, detail |-> "", content |-> None]

Stage(name, ok) == [stage |-> name, ok |-> ok]

\* raise HTTPException(status_code=status, detail=detail) out of a stage.
Raise(kind, stage, status, detail) ==
    /\ pc' = "failed"
    /\ response' = [status |-> status, detail |-> detail, content |-> None]
    /\ stages' = Append(stages, Stage(stage, FALSE))
    /\ failures' = failures \cup
           {[kind |-> kind, stage |-> stage, status |-> status, detail |-> detail]}

Init ==
    /\ OPENAI_API_KEY \in ApiKeys
    /\ uploads = {}
    /\ nreq = 0
    /\ pc = "idle"
    /\ file = [content_type |-> "", doc |-> NoDoc, guidelines |-> ""]
    /\ ext = ""
    /\ fname = ""
    /\ text = ""
    /\ text_snippet = ""
    /\ model_output = ""
    /\ parsed = None
    /\ report = None
    /\ response = NoResponse
    /\ stages = <<>>
    /\ llmCalls = 0
    /\ uploadsAtStart = {}
    /\ failures = {}

\* A POST to /analyze/ arrives (main.py:145-149); the previous request, if
\* any, has been answered.
NewRequest ==
    /\ pc \in {"idle", "completed", "failed"}
    /\ nreq < MaxRequests
    /\ nreq' = nreq + 1
    /\ \E ct \in ContentTypes, d \in Documents :
           file' = [content_type |-> ct, doc |-> d, guidelines |-> DefaultGuidelines]
    /\ pc' = "received"
    /\ ext' = ""
    /\ fname' = ""
    /\ text' = ""
    /\ text_snippet' = ""
    /\ model_output' = ""
    /\ parsed' = None
    /\ report' = None
    /\ response' = NoResponse
    /\ stages' = <<>>
    /\ llmCalls' = 0
    /\ uploadsAtStart' = uploads
    /\ UNCHANGED <<OPENAI_API_KEY, uploads, failures>>

\* main.py:150-156: the media type check, then the generated name (uuid4 is
\* a name no earlier request drew).
Validate ==
    /\ pc = "received"
    /\ IF file.content_type \notin DOMAIN ALLOWED_TYPES
       THEN /\ Raise("UnsupportedType", "validation", 400,
                     UnsupportedTypeDetail(file.content_type))
            /\ UNCHANGED <<ext, fname>>
       ELSE /\ ext' = ALLOWED_TYPES[file.content_type]
            /\ fname' = "uuid" \o ToString(nreq) \o ALLOWED_TYPES[file.content_type]
            /\ pc' = "validated"
            /\ stages' = Append(stages, Stage("validation", TRUE))
            /\ UNCHANGED <<response, failures>>
    /\ UNCHANGED <<OPENAI_API_KEY, uploads, nreq, file, text, text_snippet,
                   model_output, parsed, report, llmCalls, uploadsAtStart>>

SaveFailed_ignored(f) ==
    /\ uploads' = IF f.created THEN uploads \cup {fname} ELSE uploads
    /\ pc' = "stored"
    /\ stages' = Append(stages, Stage("storage", FALSE))
    /\ UNCHANGED <<response, failures>>

\* main.py:162-164
SaveFailed(f) ==
    /\ uploads' = IF f.created THEN uploads \cup {fname} ELSE uploads
    /\ Raise("StorageError", "storage", 500, StorageErrorDetail(f.cause))

\* main.py:158-164
SaveFile ==
    /\ pc = "validated"
    /\ \/ /\ uploads' = uploads \cup {fname}
          /\ pc' = "stored"
          /\ stages' = Append(stages, Stage("storage", TRUE))
          /\ UNCHANGED <<response, failures>>
       \/ \E f \in StorageFailures : SaveFailed(f)
    /\ UNCHANGED <<OPENAI_API_KEY, nreq, file, locals, llmCalls, uploadsAtStart>>

\* main.py:166-177
ExtractText ==
    /\ pc = "stored"
    /\ IF file.doc.format # ReaderFormat(ext)
       THEN /\ Raise("ExtractionFailed", "extraction", 500,
                     ExtractionFailedDetail(ReaderError(ext)))
            /\ UNCHANGED text
       ELSE /\ text' = ExtractByExt(ext, file.doc)
            /\ IF NoExtractableText(text')
               THEN Raise("NoExtractableText", "extraction", 422,
                          NoExtractableTextDetail)
               ELSE /\ pc' = "extracted"
                    /\ stages' = Append(stages, Stage("extraction", TRUE))
                    /\ UNCHANGED <<response, failures>>
    /\ UNCHANGED <<OPENAI_API_KEY, uploads, nreq, file, ext, fname, text_snippet,
                   model_output, parsed, report, llmCalls, uploadsAtStart>>

\* main.py:71-99 under the try of main.py:180-184: the key check, then the
\* text that goes into the prompt.
BuildPrompt ==
    /\ pc = "extracted"
    /\ IF OPENAI_API_KEY = ""
       THEN /\ Raise("AnalysisFailed", "model_call", 500,
                     AnalysisFailedDetail(MissingKeyError))
            /\ UNCHANGED text_snippet
       ELSE /\ text_snippet' = Truncate(text)
            /\ pc' = "prompted"
            /\ UNCHANGED <<response, stages, failures>>
    /\ UNCHANGED <<OPENAI_API_KEY, uploads, nreq, file, ext, fname, text,
                   model_output, parsed, report, llmCalls, uploadsAtStart>>

\* main.py:100 under the try of main.py:180-184: the one call of the model,
\* which returns some text or raises.
CallModel ==
    /\ pc = "prompted"
    /\ llmCalls' = llmCalls + 1
    /\ \/ \E out \in ModelOutputs :
             /\ model_output' = out
             /\ pc' = "called"
             /\ stages' = Append(stages, Stage("model_call", TRUE))
             /\ UNCHANGED <<response, failures>>
       \/ \E e \in ModelFailures :
             /\ Raise("AnalysisFailed", "model_call", 500, AnalysisFailedDetail(e))
             /\ UNCHANGED model_output
    /\ UNCHANGED <<OPENAI_API_KEY, uploads, nreq, file, ext, fname, text,
                   text_snippet, parsed, report, uploadsAtStart>>

\* main.py:103-113 and 181
Decode ==
    /\ pc = "called"
    /\ parsed' = extract_json_from_text(model_output)
    /\ report' = ReportOf(extract_json_from_text(model_output), model_output)
    /\ pc' = "decoded"
    /\ stages' = Append(stages, Stage("decoding", TRUE))
    /\ UNCHANGED <<OPENAI_API_KEY, uploads, nreq, file, ext, fname, text,
                   text_snippet, model_output, response, llmCalls, uploadsAtStart,
                   failures>>

\* main.py:186-190: JSONResponse renders its content when it is constructed;
\* the ValueError of a nan or an infinity is raised outside every try of the
\* handler and reaches the caller as a plain 500.
Respond ==
    /\ pc = "decoded"
    /\ IF HasNonFinite(report)
       THEN /\ pc' = "failed"
            /\ response' = [status |-> 500, detail |-> "Internal Server Error",
                            content |-> None]
            /\ failures' = failures \cup
                   {[kind |-> "Unhandled", stage |-> "response", status |-> 500,
                     detail |-> "Internal Server Error"]}
       ELSE /\ pc' = "completed"
            /\ response' = [status |-> 200, detail |-> "",
                            content |-> SuccessContent(fname, file.content_type, report)]
            /\ UNCHANGED failures
    /\ UNCHANGED <<OPENAI_API_KEY, uploads, nreq, file, locals, stages, llmCalls,
                   uploadsAtStart>>

Next ==
    \/ NewRequest
    \/ Validate
    \/ SaveFile
    \/ ExtractText
    \/ BuildPrompt
    \/ CallModel
    \/ Decode
    \/ Respond

Spec == Init /\ [][Next]_vars

\* The decoder on its own: a request whose model call has just returned,
\* with the raw output drawn from DecoderInputs.
InitDecoder ==
    /\ OPENAI_API_KEY = "sk-test"
    /\ uploads = {"uuid1.pdf"}
    /\ nreq = MaxRequests
    /\ pc = "called"
    /\ file = [content_type |-> "application/pdf", doc |-> Doc("pdf", <<"The cat sat.">>),
               guidelines |-> DefaultGuidelines]
    /\ ext = ".pdf"
    /\ fname = "uuid1.pdf"
    /\ text = "The cat sat."
    /\ text_snippet = "The cat sat."
    /\ model_output \in DecoderInputs
    /\ parsed = None
    /\ report = None
    /\ response = NoResponse
    /\ stages = <<Stage("validation", TRUE), Stage("storage", TRUE),
                  Stage("extraction", TRUE), Stage("model_call", TRUE)>>
    /\ llmCalls = 1
    /\ uploadsAtStart = {}
    /\ failures = {}

NextDecoder ==
    \/ Decode
    \/ Respond

SpecDecoder == InitDecoder /\ [][NextDecoder]_vars

\* ------------------------------------------------------------------ claims

\* The three media types the interface accepts.
SupportedMediaTypes ==
    {"application/pdf",
     "application/vnd.openxmlformats-officedocument.wordprocessingml.document",
     "application/msword"}

StageOrder == <<"validation", "storage", "extraction", "model_call", "decoding">>

\* The degraded report for a raw output, written out key by key.
IsDegraded(rep, raw) ==
    /\ rep.t = "object"
    /\ rep.keys = <<"summary", "violations", "suggestions", "metrics", "raw_output">>
    /\ rep.items[1].t = "object"
    /\ rep.items[1].keys = <<"compliant", "message">>
    /\ rep.items[1].items[1].t = "false"
    /\ rep.items[1].items[2] = JString("Model did not return parseable JSON")
    /\ rep.items[2] = JArray(<<>>)
    /\ rep.items[3] = JArray(<<>>)
    /\ rep.items[4] = JObject(<<>>, <<>>)
    /\ rep.items[5] = JString(raw)

\* Some substring of s is a JSON document.
HasValidJsonSubstring(s) ==
    \E i \in 1..Len(s) : \E j \in i..Len(s) : json_loads(SubSeq(s, i, j)).ok

\* The decoding of the current request's model output has happened.
Decoded == pc \in {"decoded", "completed", "failed"} /\ Len(stages) = 5

\* C1: a request whose declared content type is not one of the three
\* supported ones goes no further than the validation: it is rejected with
\* status 400 and the unsupported-type message, no file name is generated,
\* no storage stage runs and the upload directory is as the request found it.
C1_UnsupportedTypeRejectedBeforeStorage ==
    (pc # "idle" /\ file.content_type \notin SupportedMediaTypes) =>
        /\ pc \in {"received", "failed"}
        /\ fname = ""
        /\ uploads = uploadsAtStart
        /\ \A k \in 1..Len(stages) : stages[k] = Stage("validation", FALSE)
        /\ pc = "failed" =>
               /\ response.status = 400
               /\ response.detail = "Unsupported file type: " \o file.content_type

\* C1 witness: a second request with an unsupported type has been rejected
\* while the directory holds the first request's file.
C1_Witness ==
    /\ pc = "failed"
    /\ file.content_type = "text/plain"
    /\ response.status = 400
    /\ uploads = {"uuid1.pdf"}

\* The document of the current request is one its reader can read, and the
\* text the reader gives is empty or whitespace only.
ExtractsToBlank ==
    /\ file.doc.format = ReaderFormat(ext)
    /\ strip(ExtractByExt(ext, file.doc)) = ""

\* C2: once the extraction of a document that extracts to empty or
\* whitespace-only text has run, the request has failed at the extraction
\* stage with status 422 and the no-text message, and the model has not been
\* called.
C2_BlankTextFailsWithoutModelCall ==
    (ExtractsToBlank /\ \E k \in 1..Len(stages) : stages[k].stage = "extraction") =>
        /\ pc = "failed"
        /\ stages[Len(stages)] = Stage("extraction", FALSE)
        /\ response.status = 422
        /\ response.detail = "No extractable text found in the document."
        /\ llmCalls = 0
        /\ model_output = ""
        /\ text_snippet = ""

\* C2 witness: a PDF whose pages carry no text has failed with 422.
C2_Witness ==
    /\ pc = "failed"
    /\ file.doc = Doc("pdf", <<"", "">>)
    /\ response.status = 422
    /\ llmCalls = 0

\* C3 as stated: whatever the prose around a valid, brace-balanced JSON
\* object is, the decoder returns that object.
C3_InnerObjectAnyProse ==
    \A p \in Prefixes, o \in InnerObjects, q \in Suffixes :
        (Decoded /\ model_output = p \o o \o q) => parsed = json_loads(o).v

\* C3 amended: when the prose before the object holds no "{", the prose after
\* it holds no "}", and the output as a whole is not a JSON document of its
\* own unless the prose is whitespace only, the decoder returns the object.
C3_InnerObjectBraceFreeProse ==
    \A p \in Prefixes, o \in InnerObjects, q \in Suffixes :
        ( /\ Decoded
          /\ model_output = p \o o \o q
          /\ find(p, "{", 1) = 0
          /\ find(q, "}", 1) = 0
          /\ json_loads(strip(model_output)).ok => strip(p) = "" /\ strip(q) = "" )
        => parsed = json_loads(o).v

\* C3 witness: an object between two pieces of brace-free prose was decoded.
C3_Witness ==
    /\ Decoded
    /\ model_output = "Sure! Here you go: {\"a\":1} Thanks!"
    /\ parsed = JObject(<<"a">>, <<JNumber("1")>>)

\* C4: a raw output with no valid JSON substring decodes to the degraded
\* report, whose raw_output is the output character for character.
C4_NoJsonGivesDegradedVerbatim ==
    Decoded => (IsDegraded(report, model_output) \/ HasValidJsonSubstring(model_output))

\* C4 witness: prose with blanks around it was decoded to the degraded report.
C4_Witness ==
    /\ Decoded
    /\ model_output = "  I cannot comply.\n"
    /\ ~HasValidJsonSubstring(model_output)
    /\ report.t = "object"
    /\ report.items[5] = JString("  I cannot comply.\n")

\* C5: a raw output that is as a whole a JSON object decodes to exactly the
\* value json.loads gives for it, and not to the degraded report.
C5_WholeObjectReturnedUnchanged ==
    (Decoded /\ json_loads(model_output).ok /\ json_loads(model_output).v.t = "object") =>
        /\ report = json_loads(model_output).v
        /\ ~IsDegraded(report, model_output)

\* C5 witness: the schema's object, with newlines around it, was decoded to
\* an object with the schema's four keys.
C5_Witness ==
    /\ Decoded
    /\ model_output = "\n" \o CompliantJson \o "\n"
    /\ report.keys = <<"summary", "violations", "suggestions", "metrics">>
    /\ report.items[4] = JObject(<<"word_count">>, <<JNumber("3")>>)

\* C6: a request whose model call returned ends in the success response
\* {filename, content_type, report}, the degraded report when nothing parsed.
C6_ModelReturnMeansSuccess ==
    (pc \in {"completed", "failed"} /\ Len(stages) >= 4 /\ stages[4] = Stage("model_call", TRUE)) =>
        /\ pc = "completed"
        /\ response.status = 200
        /\ response.content =
               JObject(<<"filename", "content_type", "report">>,
                       <<JString(fname), JString(file.content_type), report>>)
        /\ parsed = None => IsDegraded(report, model_output)

\* C7: the text in the prompt is the first SnippetLimit characters and the
\* marker when the text is longer than SnippetLimit, and the text itself,
\* without marker, when it is not.
C7_TruncationPolicy ==
    text_snippet # "" =>
        IF Len(text) > SnippetLimit
        THEN text_snippet = SubSeq(text, 1, SnippetLimit) \o "\n\n[TRUNCATED]"
        ELSE text_snippet = text

FailureKinds ==
    {"UnsupportedType", "StorageError", "ExtractionFailed", "NoExtractableText",
     "AnalysisFailed"}

\* The words by which a failure message names its stage.
StageWords ==
    [st \in {"validation", "storage", "extraction", "model_call"} |->
        CASE st = "validation" -> {"Unsupported file type"}
          [] st = "storage" -> {"File save error"}
          [] st = "extraction" -> {"Extraction failed", "No extractable text"}
          [] OTHER -> {"LLM analysis failed"}]

\* The message of failure f begins with words of its stage and of no other.
IdentifiesStage(f) ==
    \A st \in DOMAIN StageWords :
        (st = f.stage) <=> \E w \in StageWords[st] : StartsWith(f.detail, 1, w)

\* C8 as stated: two failures of different kinds differ in status and in
\* message, and every message names its stage.
C8_DistinctStatusAndMessage ==
    /\ \A f \in failures, g \in failures :
           (f.kind \in FailureKinds /\ g.kind \in FailureKinds /\ f.kind # g.kind) =>
               f.status # g.status /\ f.detail # g.detail
    /\ \A f \in failures : f.kind \in FailureKinds => IdentifiesStage(f)

\* C8 amended: two failures of different kinds differ in message, every
\* message names its stage, and the statuses are 400 for UnsupportedType, 422
\* for NoExtractableText and 500 for each of StorageError, ExtractionFailed
\* and AnalysisFailed.
C8_DistinctMessageSharedStatus ==
    /\ \A f \in failures, g \in failures :
           (f.kind \in FailureKinds /\ g.kind \in FailureKinds /\ f.kind # g.kind) =>
               f.detail # g.detail
    /\ \A f \in failures : f.kind \in FailureKinds =>
           /\ IdentifiesStage(f)
           /\ f.status = CASE f.kind = "UnsupportedType" -> 400
                           [] f.kind = "NoExtractableText" -> 422
                           [] OTHER -> 500

\* C8 witness: a storage failure and an extraction failure have both been
\* returned, with the same status.
C8_Witness ==
    \E f \in failures, g \in failures :
        /\ f.kind = "StorageError"
        /\ g.kind = "ExtractionFailed"
        /\ f.status = g.status
        /\ f.detail # g.detail

\* C9: a raw output (or its first-"{"-to-last-"}" substring) that parses to
\* a value that is not an object decodes to the degraded report.
C9_NonObjectGivesDegraded ==
    LET s == strip(model_output)
        whole == json_loads(s)
        b == JsonSnippet(s)
        v == IF whole.ok THEN whole
             ELSE IF b.found THEN json_loads(b.snippet) ELSE Bad
    IN  (Decoded /\ v.ok /\ v.v.t # "object") => IsDegraded(report, model_output)

\* C10: the stages of a request run in the order validation, storage,
\* extraction, model call, decoding, each at most once and each only after
\* the one before it succeeded; a failed stage is the last one, the request
\* is then failed without a success response; a completed request ran all
\* five; the model is called at most once, and only with the file stored.
C10_StagesInOrderOnceFailTerminal ==
    /\ Len(stages) <= Len(StageOrder)
    /\ \A k \in 1..Len(stages) : stages[k].stage = StageOrder[k]
    /\ \A k \in 1..(Len(stages) - 1) : stages[k].ok
    /\ (stages # <<>> /\ ~stages[Len(stages)].ok) => pc = "failed"
    /\ pc = "failed" => response.status \in {400, 422, 500} /\ response.content = None
    /\ pc = "completed" =>
           /\ Len(stages) = 5
           /\ stages[5].ok
           /\ response.status = 200
    /\ response.status = 200 => pc = "completed"
    /\ llmCalls <= 1
    /\ llmCalls = 1 => (Len(stages) >= 4 /\ fname \in uploads /\ text # "")
    /\ text # "" => (Len(stages) >= 3 /\ fname \in uploads)
    /\ report # None => Len(stages) = 5

\* C10 witness: after a request that failed in its extraction, a request has
\* completed through all five stages.
C10_Witness ==
    /\ pc = "completed"
    /\ Len(stages) = 5
    /\ \E f \in failures : f.stage = "extraction"

====
